---- MODULE Spec2Model ----
(***************************************************************************)
(* Model of mnn-sys/build.rs: the build script that stages the vendored    *)
(* MNN sources, patches two headers, drives the native build, compiles the *)
(* mnn_c shim, generates the C and C++ bindings and prints the cargo link  *)
(* directives.                                                             *)
(*                                                                         *)
(* Text is a sequence of atoms: an atom is one character ("\n", "\r") or a *)
(* run of text that the code only ever compares as a whole (a marker, a    *)
(* macro line, an option name).  Paths are sequences of components.        *)
(***************************************************************************)
EXTENDS Integers, Sequences, FiniteSets, TLC

VARIABLES
    features,    \* cargo features the script was compiled with (cfg!(feature = ..))
    targetOS,    \* CARGO_CFG_TARGET_OS   (TARGET_OS)
    targetArch,  \* CARGO_CFG_TARGET_ARCH (TARGET_ARCH)
    hostOS,      \* std::env::consts::OS
    envRead,     \* environment variables as read so far (unread ones are not fixed yet)
    vendorSrc,   \* the directory `source` resolves to (MNN_SRC or VENDOR)
    outDir,      \* what OUT_DIR holds: vendor tree, build dir, install tree, bindings
    startDir,    \* OUT_DIR/vendor as it was when main was entered
    pc,          \* position of main
    result,      \* "running", "ok" or the error main ended with
    ops,         \* filesystem writes and subprocess spawns of this invocation, in order
    out,         \* cargo directives printed so far, in order
    cmakeOpts,   \* the options handed to the native build: [path, defs]
    shimDefs,    \* the defines of the shim compile (cc::Build::define)
    clangArgs,   \* the clang arguments of each binding generator
    option,      \* a CxxOption value under construction (the builder API)
    rendered     \* the serializations last taken of `option`

vars == <<features, targetOS, targetArch, hostOS, envRead, vendorSrc, outDir,
          startDir, pc,
          result, ops, out, cmakeOpts, shimDefs, clangArgs, option, rendered>>

\* what no step of one invocation changes
fixed == <<features, targetOS, targetArch, hostOS, startDir>>

----------------------------------------------------------------------------
(* Bounds of the model *)

\* longest HalideRuntime.h drawn, in lines
MaxLines == 5
\* longest MNNDefine.h drawn, in atoms
MaxDefineLen == 6

----------------------------------------------------------------------------
(* Text helpers *)

NL == "\n"
CR == "\r"

Range(s) == {s[i] : i \in 1..Len(s)}

\* the positions where `pat` occurs in `s`
Occurrences(s, pat) ==
    {i \in 1..(Len(s) - Len(pat) + 1) : SubSeq(s, i, i + Len(pat) - 1) = pat}

\* str::contains
Contains(s, pat) == Occurrences(s, pat) # {}

RECURSIVE Concat(_)
Concat(ss) == IF ss = <<>> THEN <<>> ELSE Head(ss) \o Concat(Tail(ss))

\* [&str]::join
RECURSIVE Join(_, _)
Join(ls, sep) ==
    IF ls = <<>> THEN <<>>
    ELSE IF Len(ls) = 1 THEN ls[1]
    ELSE ls[1] \o sep \o Join(Tail(ls), sep)

\* str::lines: split at "\n", drop the "\r" of a "\r\n", the final line ending optional
RECURSIVE Lines(_)
Lines(s) ==
    IF s = <<>> THEN <<>>
    ELSE LET nls == {i \in 1..Len(s) : s[i] = NL} IN
         IF nls = {} THEN <<s>>
         ELSE LET i == CHOOSE j \in nls : \A k \in nls : j <= k
                  raw == SubSeq(s, 1, i - 1)
                  line == IF raw # <<>> /\ raw[Len(raw)] = CR
                          THEN SubSeq(raw, 1, Len(raw) - 1) ELSE raw
              IN <<line>> \o Lines(SubSeq(s, i + 1, Len(s)))

\* str::replace: every non-overlapping match, left to right
RECURSIVE Replace(_, _, _)
Replace(s, from, to) ==
    IF Len(s) < Len(from) THEN s
    ELSE IF SubSeq(s, 1, Len(from)) = from
         THEN to \o Replace(SubSeq(s, Len(from) + 1, Len(s)), from, to)
         ELSE <<s[1]>> \o Replace(Tail(s), from, to)

----------------------------------------------------------------------------
(* Constants of the script *)

HALIDE_SEARCH == <<"HALIDE_ATTRIBUTE_ALIGN(1) halide_type_code_t code;">>

TRACING_SEARCH == <<"#define MNN_PRINT printf", NL, "#define MNN_ERROR printf">>

TRACING_REPLACE ==
    <<NL, "enum Level; extern C mnn_ffi_emit", NL,
      "#define MNN_PRINT mnn_ffi_emit Info", NL, NL,
      "#define MNN_ERROR mnn_ffi_emit Error", NL>>

----------------------------------------------------------------------------
(* Option resolver: CxxOptionValue and CxxOption *)

Features == {"vulkan", "metal", "coreml", "opencl", "openmp", "opengl",
             "crt_static", "mnn-threadpool"}

On == [tag |-> "On", v |-> ""]
Off == [tag |-> "Off", v |-> ""]
Value(s) == [tag |-> "Value", v |-> s]

\* CxxOptionValue::from_bool
from_bool(b) == IF b THEN On ELSE Off

\* impl From<&'static str> for CxxOptionValue
from_str(s) == IF s = "ON" THEN On ELSE IF s = "OFF" THEN Off ELSE Value(s)

\* CxxOption::from_bool
CxxOption_from_bool(name, b) == [name |-> name, value |-> from_bool(b)]

\* cxx_option_from_feature!: cfg!(feature = $feature) under the compiled feature set fs
cxx_option_from_feature(fs, feature, cxxname) ==
    CxxOption_from_bool(cxxname, feature \in fs)

VULKAN(fs) == cxx_option_from_feature(fs, "vulkan", "MNN_VULKAN")
METAL(fs) == cxx_option_from_feature(fs, "metal", "MNN_METAL")
COREML(fs) == cxx_option_from_feature(fs, "coreml", "MNN_COREML")
OPENCL(fs) == cxx_option_from_feature(fs, "opencl", "MNN_OPENCL")
OPENMP(fs) == cxx_option_from_feature(fs, "openmp", "MNN_OPENMP")
OPENGL(fs) == cxx_option_from_feature(fs, "opengl", "MNN_OPENGL")
CRT_STATIC(fs) == cxx_option_from_feature(fs, "crt_static", "MNN_WIN_RUNTIME_MT")
THREADPOOL(fs) == cxx_option_from_feature(fs, "mnn-threadpool", "MNN_USE_THREAD_POOL")

\* CxxOption::new
CxxOption_new(name, s) == [name |-> name, value |-> from_str(s)]

\* CxxOption::on, off, with_value
on(o) == [o EXCEPT !.value = On]
off(o) == [o EXCEPT !.value = Off]
with_value(o, s) == [o EXCEPT !.value = Value(s)]

\* CxxOption::cmake
cmake(o) ==
    CASE o.value.tag = "On" -> <<"-D", o.name, "=", "ON">>
      [] o.value.tag = "Off" -> <<"-D", o.name, "=", "OFF">>
      [] o.value.tag = "Value" -> <<"-D", o.name, "=", o.value.v>>

\* CxxOption::cmake_value
cmake_value(o) ==
    CASE o.value.tag = "On" -> "ON"
      [] o.value.tag = "Off" -> "OFF"
      [] o.value.tag = "Value" -> o.value.v

\* cxx printing the cmake spelling for On
cxx_cmake_spelling(o) ==
    CASE o.value.tag = "On" -> <<"-D", o.name, "=", "ON">>
      [] o.value.tag = "Off" -> <<"-D", o.name, "=", "0">>
      [] o.value.tag = "Value" -> <<"-D", o.name, "=", o.value.v>>

\* CxxOption::cxx
cxx(o) ==
    CASE o.value.tag = "On" -> <<"-D", o.name, "=", "1">>
      [] o.value.tag = "Off" -> <<"-D", o.name, "=", "0">>
      [] o.value.tag = "Value" -> <<"-D", o.name, "=", o.value.v>>

\* CxxOption::enabled
enabled(o) ==
    CASE o.value.tag = "On" -> TRUE
      [] o.value.tag = "Off" -> FALSE
      [] o.value.tag = "Value" -> TRUE

----------------------------------------------------------------------------
(* Platform predicates *)

\* IS_MSVC_TARGET
IS_MSVC_TARGET ==
    targetOS = "windows" /\ targetArch = "x86_64" /\ hostOS # "windows"

\* is_emscripten()
is_emscripten == targetOS = "emscripten" /\ targetArch = "wasm32"

\* MNN_COMPILE: the parse of the environment variable (Unset when it is not set)
Unset == "<unset>"
\* ParseCompile with an unrecognised value read as false
ParseCompileUnknownFalse(v) ==
    IF v \in {"1", "true", "yes"} THEN TRUE ELSE FALSE

ParseCompile(v) ==
    IF v \in {"1", "true", "yes"} THEN TRUE
    ELSE IF v \in {"0", "false", "no"} THEN FALSE
    ELSE TRUE

----------------------------------------------------------------------------
(* Directories and environment *)

\* a file that is not there
NoFile == <<"<absent>">>

\* the vendor tree: the two headers that are patched, and whether anything else is in it
NoDir == [exists |-> FALSE, halide |-> NoFile, define |-> NoFile, extra |-> FALSE]
Dir(h, d, e) == [exists |-> TRUE, halide |-> h, define |-> d, extra |-> e]

\* read_dir()...count(): the entries of a directory
EntryCount(d) ==
    (IF d.halide # NoFile \/ d.define # NoFile THEN 1 ELSE 0) + (IF d.extra THEN 1 ELSE 0)

\* an environment variable that is not set, and one not read yet
UnsetVal == <<Unset>>
Unread == <<"<unread>">>

EnvVars == {"MNN_COMPILE", "MNN_LIB_DIR", "CC_x86_64_pc_windows_msvc", "CC",
            "INCLUDE", "LIB"}

\* the values std::env::var may return for a variable: the one already seen, or any
EnvGet(name, values) == IF envRead[name] = Unread THEN values ELSE {envRead[name]}

CompileValues == {UnsetVal, <<"1">>, <<"true">>, <<"yes">>, <<"0">>, <<"false">>,
                  <<"no">>, <<"on">>}
LibDirValues == {UnsetVal, <<"/prebuilt/lib">>}
CcTargetValues == {UnsetVal, <<"clang-cl">>, <<"cl.exe">>}
CcValues == {UnsetVal, <<"/xwin/bin/", "clang-cl">>, <<"gcc">>}
SdkValues == {UnsetVal, <<"/xwin/sdk">>}

\* MNN_COMPILE
MNN_COMPILE(v) == IF v = UnsetVal THEN TRUE ELSE ParseCompile(v[1])

Step(kind, what) == [kind |-> kind, what |-> what]
Spawns == SelectSeq(ops, LAMBDA o : o.kind = "spawn")
StagingWrites == SelectSeq(ops, LAMBDA o : o.kind = "staging")

Directive(key, val) == <<key>> \o val

\* Fail with the step left to run again instead of main returning
FailAndRetry(e) == pc' = pc /\ result' = e

\* main returns Err (or panics) with error e: nothing later runs
Fail(e) == pc' = "exit" /\ result' = e

----------------------------------------------------------------------------
(* main, lines 93-144: vendor check, staging, the two patches *)

\* EnsureVendor with ensure_vendor_exists testing only that the directory can be read
EnsureVendorReadOnly ==
    /\ pc = "start"
    /\ out' = out \o << Directive("cargo:rerun-if-changed=", <<"build.rs">>),
                        Directive("cargo:rerun-if-env-changed=", <<"MNN_SRC">>) >>
    /\ IF ~vendorSrc.exists
       THEN Fail("VendorMissing")
       ELSE pc' = "stage" /\ result' = result
    /\ UNCHANGED <<fixed, envRead, vendorSrc, outDir,
                   ops, cmakeOpts, shimDefs, clangArgs, option, rendered>>

\* lines 94-103: the rerun directives, then ensure_vendor_exists(&source)
EnsureVendor ==
    /\ pc = "start"
    /\ out' = out \o << Directive("cargo:rerun-if-changed=", <<"build.rs">>),
                        Directive("cargo:rerun-if-env-changed=", <<"MNN_SRC">>) >>
    /\ IF ~vendorSrc.exists \/ EntryCount(vendorSrc) = 0
       THEN Fail("VendorMissing")
       ELSE pc' = "stage" /\ result' = result
    /\ UNCHANGED <<fixed, envRead, vendorSrc, outDir,
                   ops, cmakeOpts, shimDefs, clangArgs, option, rendered>>

\* what fs_extra::dir::copy may leave behind when it fails partway
PartialCopies(src) ==
    ({[exists |-> TRUE, halide |-> h, define |-> d, extra |-> e] :
        h \in {NoFile, src.halide}, d \in {NoFile, src.define}, e \in {FALSE, src.extra}}
    \ {src}) \cup {NoDir}

\* StageVendor with line 106 (remove_dir_all(&vendor)) active: the tree is always copied
StageVendorAlways ==
    /\ pc = "stage"
    /\ \/ /\ outDir' = [outDir EXCEPT !.vendor = vendorSrc]
          /\ ops' = Append(ops, Step("staging", "copy"))
          /\ pc' = "patch_halide"
          /\ result' = result
       \/ \E part \in PartialCopies(vendorSrc) :
          /\ outDir' = [outDir EXCEPT !.vendor = part]
          /\ ops' = Append(ops, Step("staging", "copy"))
          /\ Fail("CopyFailed")
    /\ UNCHANGED <<fixed, envRead, vendorSrc, out,
                   cmakeOpts, shimDefs, clangArgs, option, rendered>>

\* lines 105-115: if !vendor.exists() { fs_extra::dir::copy(..)? .. }
StageVendor ==
    /\ pc = "stage"
    /\ IF outDir.vendor.exists
       THEN /\ pc' = "native"
            /\ UNCHANGED <<outDir, ops, result>>
       ELSE \/ /\ outDir' = [outDir EXCEPT !.vendor = vendorSrc]
               /\ ops' = Append(ops, Step("staging", "copy"))
               /\ pc' = "patch_halide"
               /\ result' = result
            \/ \E part \in PartialCopies(vendorSrc) :
               /\ outDir' = [outDir EXCEPT !.vendor = part]
               /\ ops' = Append(ops, Step("staging", "copy"))
               /\ Fail("CopyFailed")
    /\ UNCHANGED <<fixed, envRead, vendorSrc, out,
                   cmakeOpts, shimDefs, clangArgs, option, rendered>>

\* find_position(|line| line.contains(HALIDE_SEARCH)): 0-based, -1 for None
FindMarker(ls) ==
    LET hits == {i \in 1..Len(ls) : Contains(ls[i], HALIDE_SEARCH)} IN
    IF hits = {} THEN -1 ELSE (CHOOSE i \in hits : \A j \in hits : i <= j) - 1

\* line 131: the filter's keep test; pred is idx - 1 as the build computes it
KeepLine(c_idx, idx, pred) ==
    ~(c_idx = pred \/ (idx + 1 <= c_idx /\ c_idx <= idx + 3))

\* lines 128-133: the lines that pass the filter, order kept
FilterLines(ls, idx, pred) ==
    LET kept == {i \in 1..Len(ls) : KeepLine(i - 1, idx, pred)}
        RECURSIVE Pick(_)
        Pick(i) == IF i > Len(ls) THEN <<>>
                   ELSE (IF i \in kept THEN <<ls[i]>> ELSE <<>>) \o Pick(i + 1)
    IN Pick(1)

\* usize arithmetic wraps modulo 2^64 when overflow checks are off; the modulus is
\* narrowed to 2^30 to fit TLC's integers, which keeps idx - 1 for idx = 0 above every
\* line index
USIZE_MODULUS == 1073741824
wrapping_sub(a, b) == (a - b) % USIZE_MODULUS

\* lines 121-136 as a function of the file's content: the content written, or the
\* content left alone when no line holds the marker
PatchHalideContent(content, pred) ==
    LET ls == Lines(content)
        idx == FindMarker(ls)
    IN IF idx = -1 THEN content
       ELSE Join(FilterLines(ls, idx, pred), <<NL>>)

\* PatchHalide writing the joined lines back whether or not the marker was found
PatchHalideAlwaysWrite ==
    /\ pc = "patch_halide"
    /\ LET file == outDir.vendor.halide
           ls == Lines(file)
           idx == FindMarker(ls)
       IN IF file = NoFile
          THEN Fail("IoError") /\ UNCHANGED <<outDir, ops>>
          ELSE /\ outDir' = [outDir EXCEPT !.vendor.halide =
                     Join(IF idx = -1 THEN ls ELSE FilterLines(ls, idx, idx - 1), <<NL>>)]
               /\ ops' = ops \o << Step("staging", "chmod HalideRuntime.h"),
                                   Step("staging", "write HalideRuntime.h") >>
               /\ pc' = "patch_define"
               /\ result' = result
    /\ UNCHANGED <<fixed, envRead, vendorSrc, out,
                   cmakeOpts, shimDefs, clangArgs, option, rendered>>

\* lines 116-136: chmod, read, find the marker, filter, write
PatchHalide ==
    /\ pc = "patch_halide"
    /\ LET file == outDir.vendor.halide
           idx == FindMarker(Lines(file))
       IN IF file = NoFile
          THEN Fail("IoError") /\ UNCHANGED <<outDir, ops>>
          ELSE IF idx = -1
          THEN /\ ops' = Append(ops, Step("staging", "chmod HalideRuntime.h"))
               /\ pc' = "patch_define"
               /\ UNCHANGED <<outDir, result>>
          ELSE \E pred \in (IF idx = 0 THEN {"panic", "wrap"} ELSE {"exact"}) :
               IF pred = "panic"
               THEN /\ ops' = Append(ops, Step("staging", "chmod HalideRuntime.h"))
                    /\ Fail("Panic: attempt to subtract with overflow")
                    /\ UNCHANGED outDir
               ELSE /\ outDir' = [outDir EXCEPT !.vendor.halide =
                          PatchHalideContent(file, wrapping_sub(idx, 1))]
                    /\ ops' = ops \o << Step("staging", "chmod HalideRuntime.h"),
                                        Step("staging", "write HalideRuntime.h") >>
                    /\ pc' = "patch_define"
                    /\ result' = result
    /\ UNCHANGED <<fixed, envRead, vendorSrc, out,
                   cmakeOpts, shimDefs, clangArgs, option, rendered>>

\* PatchDefineContent matching on the first macro line alone
PatchDefineFirstLine(content) ==
    Replace(content, SubSeq(TRACING_SEARCH, 1, 1), TRACING_REPLACE)

\* lines 139-140 as a function of the file's content
PatchDefineContent(content) == Replace(content, TRACING_SEARCH, TRACING_REPLACE)

\* lines 138-143: read, replace, chmod, write
PatchDefine ==
    /\ pc = "patch_define"
    /\ LET file == outDir.vendor.define
       IN IF file = NoFile
          THEN Fail("IoError") /\ UNCHANGED <<outDir, ops>>
          ELSE /\ outDir' = [outDir EXCEPT !.vendor.define = PatchDefineContent(file)]
               /\ ops' = ops \o << Step("staging", "chmod MNNDefine.h"),
                                   Step("staging", "write MNNDefine.h") >>
               /\ pc' = "native"
               /\ result' = result
    /\ UNCHANGED <<fixed, envRead, vendorSrc, out,
                   cmakeOpts, shimDefs, clangArgs, option, rendered>>

----------------------------------------------------------------------------
(* build_cmake, lines 406-613 *)

OUT_DIR == "<OUT_DIR>"
InstallLib == <<OUT_DIR, "/mnn-install", "/lib">>
VendorInclude == <<OUT_DIR, "/vendor", "/include">>

\* ManualPath without the test of the target OS
ManualPathAnyOS == targetArch = "x86_64" /\ hostOS # "windows"

\* line 411: the test that selects the manual path
ManualPath == targetOS = "windows" /\ targetArch = "x86_64" /\ hostOS # "windows"

\* lines 351 and 429: var(CC_x86_64_pc_windows_msvc).or_else(|_| var(CC)).unwrap_or_default()
CcOf(ccTarget, cc) ==
    IF ccTarget # UnsetVal THEN ccTarget ELSE IF cc # UnsetVal THEN cc ELSE <<>>

\* is_clang_cl accepting any compiler that is configured
is_any_compiler(cc) == cc # << >>

\* lines 352 and 431
is_clang_cl(cc) == Contains(cc, <<"clang-cl">>)

D(name, value) == <<"-D", name, "=", value>>

\* ManualOptionArgs with the accelerators the Windows build cannot use written as
\* literals
ManualOptionArgsLiteral(fs) ==
    << D("MNN_WIN_RUNTIME_MT", cmake_value(CRT_STATIC(fs))),
       D("MNN_USE_THREAD_POOL", cmake_value(THREADPOOL(fs))),
       D("MNN_OPENMP", cmake_value(OPENMP(fs))),
       D("MNN_VULKAN", cmake_value(VULKAN(fs))),
       D("MNN_METAL", "OFF"),
       D("MNN_COREML", "OFF"),
       D("MNN_OPENCL", cmake_value(OPENCL(fs))),
       D("MNN_OPENGL", cmake_value(OPENGL(fs))),
       D("MNN_USE_SSE", "OFF") >>

\* lines 523-531: the feature options of the manual configure command
ManualOptionArgs(fs) ==
    << D("MNN_WIN_RUNTIME_MT", cmake_value(CRT_STATIC(fs))),
       D("MNN_USE_THREAD_POOL", cmake_value(THREADPOOL(fs))),
       D("MNN_OPENMP", cmake_value(OPENMP(fs))),
       D("MNN_VULKAN", cmake_value(VULKAN(fs))),
       D("MNN_METAL", cmake_value(METAL(fs))),
       D("MNN_COREML", cmake_value(COREML(fs))),
       D("MNN_OPENCL", cmake_value(OPENCL(fs))),
       D("MNN_OPENGL", cmake_value(OPENGL(fs))),
       D("MNN_USE_SSE", "OFF") >>

\* lines 433-531: the arguments of the manual configure command
ManualArgs(fs, cc) ==
    << <<OUT_DIR, "/vendor">>, <<"-G">>, <<"Unix Makefiles">>,
       D("CMAKE_CXX_STANDARD", "14"),
       D("MNN_BUILD_SHARED_LIBS", "OFF"),
       D("MNN_SEP_BUILD", "OFF"),
       D("MNN_PORTABLE_BUILD", "ON"),
       D("MNN_USE_SYSTEM_LIB", "OFF"),
       D("MNN_BUILD_CONVERTER", "OFF"),
       D("MNN_BUILD_TOOLS", "OFF"),
       D("CMAKE_INSTALL_PREFIX", "<OUT_DIR>/mnn-install"),
       D("CMAKE_SYSTEM_NAME", "Windows"),
       D("CMAKE_BUILD_TYPE", "Release") >>
    \o (IF targetArch = "x86_64" THEN << D("CMAKE_SYSTEM_PROCESSOR", "AMD64") >>
        ELSE IF targetArch = "aarch64" THEN << D("CMAKE_SYSTEM_PROCESSOR", "ARM64") >>
        ELSE IF targetArch = "x86" THEN << D("CMAKE_SYSTEM_PROCESSOR", "X86") >>
        ELSE << >>)
    \o << <<"-D", "CMAKE_C_COMPILER", "=">> \o cc,
          D("CMAKE_RC_COMPILER", "llvm-rc"),
          D("CMAKE_MT", "llvm-mt"),
          D("CMAKE_LINKER", "lld-link"),
          D("CMAKE_TRY_COMPILE_CONFIGURATION", "Release"),
          D("CMAKE_MSVC_RUNTIME_LIBRARY", "MultiThreadedDLL"),
          D("CMAKE_C_FLAGS", "--target=x86_64-pc-windows-msvc -DWIN32=1 /EHsc -msse4.1"),
          D("CMAKE_CXX_FLAGS", "--target=x86_64-pc-windows-msvc -DWIN32=1 /EHsc -msse4.1") >>
    \o ManualOptionArgs(fs)

\* lines 587-595: the feature options defined on the cmake::Config
GenericOptionDefines(fs) ==
    << <<"MNN_WIN_RUNTIME_MT", cmake_value(CRT_STATIC(fs))>>,
       <<"MNN_USE_THREAD_POOL", cmake_value(THREADPOOL(fs))>>,
       <<"MNN_OPENMP", cmake_value(OPENMP(fs))>>,
       <<"MNN_VULKAN", cmake_value(VULKAN(fs))>>,
       <<"MNN_METAL", cmake_value(METAL(fs))>>,
       <<"MNN_COREML", cmake_value(COREML(fs))>>,
       <<"MNN_OPENCL", cmake_value(OPENCL(fs))>>,
       <<"MNN_OPENGL", cmake_value(OPENGL(fs))>>,
       <<"MNN_USE_SSE", "ON">> >>

\* lines 568-608: every config.define of the generic path, in order
GenericDefines(fs) ==
    << <<"CMAKE_CXX_STANDARD", "14">>,
       <<"MNN_BUILD_SHARED_LIBS", "OFF">>,
       <<"MNN_SEP_BUILD", "OFF">>,
       <<"MNN_PORTABLE_BUILD", "ON">>,
       <<"MNN_USE_SYSTEM_LIB", "OFF">>,
       <<"MNN_BUILD_CONVERTER", "OFF">>,
       <<"MNN_BUILD_TOOLS", "OFF">>,
       <<"CMAKE_INSTALL_PREFIX", "<OUT_DIR>/mnn-install">> >>
    \o GenericOptionDefines(fs)
    \o (IF targetOS = "windows"
        THEN << <<"CMAKE_CXX_FLAGS", "-DWIN32=1 -msse4.1">>,
                <<"CMAKE_C_FLAGS", "-DWIN32=1 -msse4.1">> >>
        ELSE << >>)
    \o (IF is_emscripten
        THEN << <<"CMAKE_C_COMPILER", "emcc">>, <<"CMAKE_CXX_COMPILER", "em++">> >>
        ELSE << >>)

NoOpts == [path |-> "none", args |-> << >>]

\* lines 146-148 and 411-461: MNN_COMPILE is true and the target is the Windows ABI on
\* another host: the build directory is recreated, the compiler is looked up and checked
BuildCmakeManual ==
    /\ pc = "native"
    /\ ManualPath
    /\ \E v \in EnvGet("MNN_COMPILE", CompileValues) :
       \E ct \in EnvGet("CC_x86_64_pc_windows_msvc", CcTargetValues) :
       \E c \in (IF ct = UnsetVal THEN EnvGet("CC", CcValues) ELSE {envRead["CC"]}) :
          /\ MNN_COMPILE(v)
          /\ envRead' = [envRead EXCEPT !["MNN_COMPILE"] = v,
                                        !["CC_x86_64_pc_windows_msvc"] = ct,
                                        !["CC"] = c]
          /\ outDir' = [outDir EXCEPT !.build_manual = "empty"]
          /\ ops' = ops \o (IF outDir.build_manual # "none"
                            THEN << Step("fs", "remove build-mnn-manual") >> ELSE << >>)
                        \o << Step("fs", "create build-mnn-manual") >>
          /\ IF ~is_clang_cl(CcOf(ct, c))
             THEN Fail("ConfigurationError")
             ELSE pc' = "configure" /\ result' = result
    /\ UNCHANGED <<fixed, vendorSrc, out,
                   cmakeOpts, shimDefs, clangArgs, option, rendered>>

\* Command::status()?: the subprocess could not be started, or it ran and exited
Exits == {"ok", "nonzero", "spawn_error"}

\* a command that started is recorded with the exit status main saw
Spawned(e, what) ==
    IF e = "spawn_error" THEN << >>
    ELSE << Step("spawn", what), Step(IF e = "ok" THEN "exit_ok" ELSE "exit_nonzero", what) >>

\* lines 537-541: the configure command
ManualConfigure ==
    /\ pc = "configure"
    /\ \E e \in Exits :
          /\ ops' = ops \o Spawned(e, "cmake configure")
          /\ cmakeOpts' = [path |-> "manual",
                           args |-> ManualArgs(features,
                                       CcOf(envRead["CC_x86_64_pc_windows_msvc"],
                                            envRead["CC"]))]
          /\ outDir' = [outDir EXCEPT !.build_manual =
                            IF e = "spawn_error" THEN @ ELSE "configured"]
          /\ CASE e = "ok" -> pc' = "build" /\ result' = result
               [] e = "nonzero" -> Fail("Manual CMake configuration failed")
               [] e = "spawn_error" -> Fail("IoError")
    /\ UNCHANGED <<fixed, envRead, vendorSrc, out,
                   shimDefs, clangArgs, option, rendered>>

\* ManualBuild without the test of lines 551-553: the exit status is not looked at
ManualBuildUnchecked ==
    /\ pc = "build"
    /\ \E e \in Exits :
          /\ ops' = ops \o Spawned(e, "cmake build")
          /\ outDir' = [outDir EXCEPT !.build_manual =
                            IF e = "spawn_error" THEN @ ELSE "built"]
          /\ CASE e \in {"ok", "nonzero"} -> pc' = "install" /\ result' = result
               [] e = "spawn_error" -> Fail("IoError")
    /\ UNCHANGED <<fixed, envRead, vendorSrc, out,
                   cmakeOpts, shimDefs, clangArgs, option, rendered>>

\* lines 543-553: the build command
ManualBuild ==
    /\ pc = "build"
    /\ \E e \in Exits :
          /\ ops' = ops \o Spawned(e, "cmake build")
          /\ outDir' = [outDir EXCEPT !.build_manual =
                            IF e = "spawn_error" THEN @ ELSE "built"]
          /\ CASE e = "ok" -> pc' = "install" /\ result' = result
               [] e = "nonzero" -> Fail("Manual CMake build failed")
               [] e = "spawn_error" -> Fail("IoError")
    /\ UNCHANGED <<fixed, envRead, vendorSrc, out,
                   cmakeOpts, shimDefs, clangArgs, option, rendered>>

\* lines 555-565 and 149-152: the install command; then main prints the search path
ManualInstall ==
    /\ pc = "install"
    /\ \E e \in Exits :
          /\ ops' = ops \o Spawned(e, "cmake install")
          /\ outDir' = [outDir EXCEPT !.install =
                            CASE e = "ok" -> "complete"
                              [] e = "nonzero" -> "partial"
                              [] e = "spawn_error" -> @]
          /\ CASE e = "ok" ->
                    /\ pc' = "shim" /\ result' = result
                    /\ out' = Append(out,
                          Directive("cargo:rustc-link-search=native=", InstallLib))
               [] e = "nonzero" -> Fail("Manual CMake install failed") /\ out' = out
               [] e = "spawn_error" -> Fail("IoError") /\ out' = out
    /\ UNCHANGED <<fixed, envRead, vendorSrc,
                   cmakeOpts, shimDefs, clangArgs, option, rendered>>

\* lines 146-152 and 568-612: MNN_COMPILE is true on any other platform: the cmake crate
\* configures, builds and installs, and panics when a command fails
BuildCmakeGeneric ==
    /\ pc = "native"
    /\ ~ManualPath
    /\ \E v \in EnvGet("MNN_COMPILE", CompileValues) :
          /\ MNN_COMPILE(v)
          /\ envRead' = [envRead EXCEPT !["MNN_COMPILE"] = v]
    /\ cmakeOpts' = [path |-> "generic", args |-> GenericDefines(features)]
    /\ ops' = Append(ops, Step("spawn", "cmake (cmake crate)"))
    /\ \E e \in {"ok", "panic"} :
          IF e = "ok"
          THEN /\ outDir' = [outDir EXCEPT !.install = "complete"]
               /\ out' = Append(out,
                     Directive("cargo:rustc-link-search=native=", InstallLib))
               /\ pc' = "shim" /\ result' = result
          ELSE /\ outDir' = [outDir EXCEPT !.install = "partial"]
               /\ out' = out
               /\ Fail("Panic: cmake crate build failed")
    /\ UNCHANGED <<fixed, vendorSrc,
                   shimDefs, clangArgs, option, rendered>>

\* lines 153-157: MNN_COMPILE is false: MNN_LIB_DIR is the search path, or main panics
UsePrebuilt ==
    /\ pc = "native"
    /\ \E v \in EnvGet("MNN_COMPILE", CompileValues) :
       \E l \in EnvGet("MNN_LIB_DIR", LibDirValues) :
          /\ ~MNN_COMPILE(v)
          /\ envRead' = [envRead EXCEPT !["MNN_COMPILE"] = v, !["MNN_LIB_DIR"] = l]
          /\ IF l # UnsetVal
             THEN /\ out' = Append(out, Directive("cargo:rustc-link-search=native=", l))
                  /\ pc' = "shim" /\ result' = result
             ELSE /\ out' = out
                  /\ Fail("Panic: MNN_LIB_DIR not set while MNN_COMPILE is false")
    /\ UNCHANGED <<fixed, vendorSrc, outDir, ops,
                   cmakeOpts, shimDefs, clangArgs, option, rendered>>

----------------------------------------------------------------------------
(* mnn_c_build, lines 341-404 *)

\* lines 365-374: the defines of the shim compile, each behind its feature
ShimDefines(fs) ==
    (IF "vulkan" \in fs THEN << <<"MNN_VULKAN", "1">> >> ELSE << >>)
    \o (IF "opengl" \in fs THEN << <<"MNN_OPENGL", "1">> >> ELSE << >>)
    \o (IF "metal" \in fs THEN << <<"MNN_METAL", "1">> >> ELSE << >>)
    \o (IF "coreml" \in fs THEN << <<"MNN_COREML", "1">> >> ELSE << >>)
    \o (IF "opencl" \in fs THEN << <<"MNN_OPENCL", "ON">> >> ELSE << >>)

NoShim == [compiled |-> FALSE, defines |-> << >>, compiler |-> "", static_crt |-> FALSE]

\* lines 361-389: the cc::Build as configured
ShimConfig(fs) ==
    [compiled |-> TRUE,
     defines |-> ShimDefines(fs),
     compiler |-> IF is_emscripten THEN "emcc" ELSE "default",
     static_crt |-> "crt_static" \in fs]

\* what the cc crate prints while it compiles and archives mnn_c
ShimDirectives == << <<"<cc crate>", "mnn_c">> >>

\* lines 159-160 and 341-404: the clang-cl check on the Windows ABI target, then the
\* compile of the shim
MnnCBuild ==
    /\ pc = "shim"
    /\ \E ct \in (IF IS_MSVC_TARGET
                  THEN EnvGet("CC_x86_64_pc_windows_msvc", CcTargetValues)
                  ELSE {envRead["CC_x86_64_pc_windows_msvc"]}) :
       \E c \in (IF IS_MSVC_TARGET /\ ct = UnsetVal
                 THEN EnvGet("CC", CcValues) ELSE {envRead["CC"]}) :
          /\ envRead' = [envRead EXCEPT !["CC_x86_64_pc_windows_msvc"] = ct,
                                        !["CC"] = c]
          /\ IF IS_MSVC_TARGET /\ ~is_clang_cl(CcOf(ct, c))
             THEN /\ Fail("ConfigurationError")
                  /\ UNCHANGED <<outDir, ops, out, shimDefs>>
             ELSE \E e \in {"ok", "fail"} :
                  /\ shimDefs' = ShimConfig(features)
                  /\ ops' = Append(ops, Step("spawn", "compiler mnn_c"))
                  /\ IF e = "ok"
                     THEN /\ outDir' = [outDir EXCEPT !.lib_mnn_c = TRUE]
                          /\ out' = out \o ShimDirectives
                          /\ pc' = "c_bindgen" /\ result' = result
                     ELSE /\ UNCHANGED <<outDir, out>>
                          /\ Fail("Failed to build mnn_c")
    /\ UNCHANGED <<fixed, vendorSrc,
                   cmakeOpts, clangArgs, option, rendered>>

----------------------------------------------------------------------------
(* mnn_c_bindgen and mnn_cpp_bindgen, lines 209-339 *)

\* lines 215-221
HEADERS == <<"error_code_c.h", "interpreter_c.h", "tensor_c.h", "backend_c.h",
             "schedule_c.h">>

MACOS_SDK_PATH == "<xcrun --show-sdk-path>"
EMSCRIPTEN_CACHE == "<em-config CACHE>"

XwinWarning ==
    Directive("cargo:warning=", <<"ensure you are using cargo xwin build">>)

\* lines 251 and 329: var("INCLUDE").is_err() || var("LIB").is_err()
XwinEnvMissing(inc, lib) == inc = UnsetVal \/ lib = UnsetVal

\* lines 223-257: the clang arguments of the C binding generator
CClangArgs(fs) ==
    << <<"-x">>, <<"c++">>, <<"-std=c++14">>,
       cxx(VULKAN(fs)), cxx(METAL(fs)), cxx(COREML(fs)), cxx(OPENCL(fs)),
       <<"-D__STDC_LIMIT_MACROS">> >>
    \o (IF targetOS = "macos"
        THEN << <<"-D__APPLE__">>, <<"-isysroot", MACOS_SDK_PATH>> >> ELSE << >>)
    \o (IF is_emscripten
        THEN << <<"-fvisibility=default">>, <<"--target=wasm32-emscripten">>,
                <<"-I", EMSCRIPTEN_CACHE, "/sysroot/include">> >>
        ELSE IF IS_MSVC_TARGET
        THEN << <<"--target=x86_64-pc-windows-msvc">> >>
        ELSE << >>)
    \o << <<"-I">> \o VendorInclude >>

\* lines 293-332: the clang arguments of the C++ binding generator
CppClangArgs(fs) ==
    << <<"-x">>, <<"c++">>, <<"-std=c++14">>,
       cxx(VULKAN(fs)), cxx(METAL(fs)), cxx(COREML(fs)), cxx(OPENCL(fs)),
       <<"-D__STDC_LIMIT_MACROS">>,
       <<"-I">> \o VendorInclude >>
    \o (IF targetOS = "macos"
        THEN << <<"-D__APPLE__">>, <<"-isysroot", MACOS_SDK_PATH>> >> ELSE << >>)
    \o (IF IS_MSVC_TARGET
        THEN << <<"--target=x86_64-pc-windows-msvc">> >>
        ELSE << >>)

\* lines 212-214: rerun_if_changed for every entry of mnn_c
ShimReruns ==
    [i \in 1..Len(HEADERS) |-> Directive("cargo:rerun-if-changed=", <<"mnn_c/", HEADERS[i]>>)]

\* the tools whose output a binding generator needs first: xcrun for MACOS_SDK_PATH,
\* em-config for EMSCRIPTEN_CACHE (both LazyLock, both panic when the tool cannot be
\* started)
ToolSpawns(tools) == [i \in 1..Len(tools) |-> Step("spawn", tools[i])]

\* lines 161 and 209-289
MnnCBindgen ==
    /\ pc = "c_bindgen"
    /\ \E inc \in (IF ~is_emscripten /\ IS_MSVC_TARGET
                   THEN EnvGet("INCLUDE", SdkValues) ELSE {envRead["INCLUDE"]}) :
       \E lib \in (IF ~is_emscripten /\ IS_MSVC_TARGET /\ inc # UnsetVal
                   THEN EnvGet("LIB", SdkValues) ELSE {envRead["LIB"]}) :
       \E e \in {"ok", "fail"} \cup
                (IF targetOS = "macos" \/ is_emscripten THEN {"tool_panic"} ELSE {}) :
          /\ envRead' = [envRead EXCEPT !["INCLUDE"] = inc, !["LIB"] = lib]
          /\ ops' = ops
                \o (IF e = "tool_panic" THEN << >>
                    ELSE ToolSpawns((IF targetOS = "macos" THEN <<"xcrun">> ELSE << >>)
                           \o (IF is_emscripten THEN <<"em-config">> ELSE << >>)))
          /\ out' = out \o ShimReruns
                \o (IF is_emscripten
                    THEN << Directive("cargo:rustc-cdylib-link-arg=",
                                      <<"-fvisibility=default">>) >>
                    ELSE << >>)
                \o (IF ~is_emscripten /\ IS_MSVC_TARGET /\ XwinEnvMissing(inc, lib)
                    THEN << XwinWarning >> ELSE << >>)
          /\ CASE e = "ok" ->
                    /\ clangArgs' = [clangArgs EXCEPT !.c = CClangArgs(features)]
                    /\ outDir' = [outDir EXCEPT !.mnn_c_rs = TRUE]
                    /\ pc' = "cpp_bindgen" /\ result' = result
               [] e = "fail" ->
                    /\ clangArgs' = [clangArgs EXCEPT !.c = CClangArgs(features)]
                    /\ outDir' = outDir
                    /\ Fail("Failed to generate mnn_c bindings")
               [] e = "tool_panic" ->
                    /\ UNCHANGED <<clangArgs, outDir>>
                    /\ Fail("Panic: toolchain query failed")
    /\ UNCHANGED <<fixed, vendorSrc,
                   cmakeOpts, shimDefs, option, rendered>>

\* lines 162 and 291-339
MnnCppBindgen ==
    /\ pc = "cpp_bindgen"
    /\ \E inc \in (IF IS_MSVC_TARGET
                   THEN EnvGet("INCLUDE", SdkValues) ELSE {envRead["INCLUDE"]}) :
       \E lib \in (IF IS_MSVC_TARGET /\ inc # UnsetVal
                   THEN EnvGet("LIB", SdkValues) ELSE {envRead["LIB"]}) :
       \E e \in {"ok", "fail"} :
          /\ envRead' = [envRead EXCEPT !["INCLUDE"] = inc, !["LIB"] = lib]
          /\ out' = out \o (IF IS_MSVC_TARGET /\ XwinEnvMissing(inc, lib)
                            THEN << XwinWarning >> ELSE << >>)
          /\ clangArgs' = [clangArgs EXCEPT !.cpp = CppClangArgs(features)]
          /\ IF e = "ok"
             THEN /\ outDir' = [outDir EXCEPT !.mnn_cpp_rs = TRUE]
                  /\ pc' = "link" /\ result' = result
             ELSE /\ outDir' = outDir
                  /\ Fail("Failed to generate mnn_cpp bindings")
    /\ UNCHANGED <<fixed, vendorSrc, ops,
                   cmakeOpts, shimDefs, option, rendered>>

----------------------------------------------------------------------------
(* main, lines 163-199: the link directives *)

Framework(name) == Directive("cargo:rustc-link-lib=framework=", <<name>>)

\* Frameworks without the test of the target OS
FrameworksAnyOS(fs) ==
    (IF "metal" \in fs
     THEN << Framework("Foundation"), Framework("CoreGraphics"), Framework("Metal") >>
     ELSE << >>)
    \o (IF "coreml" \in fs
        THEN << Framework("CoreML"), Framework("CoreVideo") >> ELSE << >>)
    \o (IF "opencl" \in fs THEN << Framework("OpenCL") >> ELSE << >>)
    \o (IF "opengl" \in fs THEN << Framework("OpenGL") >> ELSE << >>)

\* Frameworks with the cfg attributes of lines 165 and 167 missing: Foundation and
\* CoreGraphics are linked on every macOS target
FrameworksMetalUngated(fs) ==
    IF targetOS = "macos"
    THEN << Framework("Foundation"), Framework("CoreGraphics") >>
      \o (IF "metal" \in fs THEN << Framework("Metal") >> ELSE << >>)
      \o (IF "coreml" \in fs
          THEN << Framework("CoreML"), Framework("CoreVideo") >> ELSE << >>)
      \o (IF "opencl" \in fs THEN << Framework("OpenCL") >> ELSE << >>)
      \o (IF "opengl" \in fs THEN << Framework("OpenGL") >> ELSE << >>)
    ELSE << >>

\* lines 164-178: the frameworks of a macOS target, each behind its feature
Frameworks(fs) ==
    IF targetOS = "macos"
    THEN (IF "metal" \in fs
          THEN << Framework("Foundation"), Framework("CoreGraphics"), Framework("Metal") >>
          ELSE << >>)
      \o (IF "coreml" \in fs
          THEN << Framework("CoreML"), Framework("CoreVideo") >> ELSE << >>)
      \o (IF "opencl" \in fs THEN << Framework("OpenCL") >> ELSE << >>)
      \o (IF "opengl" \in fs THEN << Framework("OpenGL") >> ELSE << >>)
    ELSE << >>

\* lines 183-196: the emscripten system libraries
EmscriptenSearch ==
    IF is_emscripten
    THEN << Directive("cargo:rustc-link-search=native=",
                      <<EMSCRIPTEN_CACHE, "/sysroot/lib/wasm32-emscripten">>) >>
    ELSE << >>

\* EmitLink with line 197 moved up before the emscripten block of lines 183-196
EmitLinkMnnBeforeSearch ==
    /\ pc = "link"
    /\ \E e \in {"ok"} \cup (IF is_emscripten THEN {"spawn_error"} ELSE {}) :
          /\ ops' = ops \o (IF is_emscripten /\ e = "ok"
                            THEN << Step("spawn", "em-config") >> ELSE << >>)
          /\ out' = out
                \o << Directive("cargo:include=", VendorInclude) >>
                \o Frameworks(features)
                \o << Directive("cargo:rustc-link-lib=static=", <<"MNN">>) >>
                \o (IF e = "ok" THEN EmscriptenSearch ELSE << >>)
          /\ IF e = "ok"
             THEN pc' = "exit" /\ result' = "ok"
             ELSE Fail("IoError")
    /\ UNCHANGED <<fixed, envRead, vendorSrc, outDir,
                   cmakeOpts, shimDefs, clangArgs, option, rendered>>

\* lines 163-198
EmitLink ==
    /\ pc = "link"
    /\ \E e \in {"ok"} \cup (IF is_emscripten THEN {"spawn_error"} ELSE {}) :
          /\ ops' = ops \o (IF is_emscripten /\ e = "ok"
                            THEN << Step("spawn", "em-config") >> ELSE << >>)
          /\ IF e = "ok"
             THEN /\ out' = out
                       \o << Directive("cargo:include=", VendorInclude) >>
                       \o Frameworks(features)
                       \o EmscriptenSearch
                       \o << Directive("cargo:rustc-link-lib=static=", <<"MNN">>) >>
                  /\ pc' = "exit" /\ result' = "ok"
             ELSE /\ out' = out
                       \o << Directive("cargo:include=", VendorInclude) >>
                       \o Frameworks(features)
                  /\ Fail("IoError")
    /\ UNCHANGED <<fixed, envRead, vendorSrc, outDir,
                   cmakeOpts, shimDefs, clangArgs, option, rendered>>

----------------------------------------------------------------------------
(* The CxxOption builder API, lines 730-774 *)

NotRendered == [of |-> [name |-> "", value |-> Off], cmake |-> << >>,
                cmake_value |-> "", cxx |-> << >>, done |-> FALSE]

\* the values drawn for with_value and new
OptionStrings == {"ON", "OFF", "1", "0", "2"}

OptionNames == {"MNN_VULKAN", "MNN_METAL", "MNN_COREML", "MNN_OPENCL", "MNN_OPENMP",
                "MNN_OPENGL", "MNN_WIN_RUNTIME_MT", "MNN_USE_THREAD_POOL"}

\* lines 720-728: the options of the compiled feature set
FeatureOptions(fs) ==
    {VULKAN(fs), METAL(fs), COREML(fs), OPENCL(fs), OPENMP(fs), OPENGL(fs),
     CRT_STATIC(fs), THREADPOOL(fs)}

OptionOn ==
    /\ pc = "option"
    /\ option' = on(option)
    /\ UNCHANGED <<fixed, envRead, vendorSrc, outDir, pc,
                   result, ops, out, cmakeOpts, shimDefs, clangArgs, rendered>>

OptionOff ==
    /\ pc = "option"
    /\ option' = off(option)
    /\ UNCHANGED <<fixed, envRead, vendorSrc, outDir, pc,
                   result, ops, out, cmakeOpts, shimDefs, clangArgs, rendered>>

OptionWithValue ==
    /\ pc = "option"
    /\ \E s \in OptionStrings : option' = with_value(option, s)
    /\ UNCHANGED <<fixed, envRead, vendorSrc, outDir, pc,
                   result, ops, out, cmakeOpts, shimDefs, clangArgs, rendered>>

\* the three serializations of the option as it is now
OptionRender ==
    /\ pc = "option"
    /\ rendered' = [of |-> option, cmake |-> cmake(option),
                    cmake_value |-> cmake_value(option), cxx |-> cxx(option),
                    done |-> TRUE]
    /\ UNCHANGED <<fixed, envRead, vendorSrc, outDir, pc,
                   result, ops, out, cmakeOpts, shimDefs, clangArgs, option>>

----------------------------------------------------------------------------
(* Inputs *)

TargetOSes == {"linux", "macos", "windows", "emscripten"}
TargetArches == {"x86_64", "aarch64", "wasm32"}
HostOSes == {"linux", "windows"}

\* a line of HalideRuntime.h that holds the marker, and the i-th line that does not
MarkerLine == <<"  ">> \o HALIDE_SEARCH \o <<" // halide_type_code_t">>
PlainLine(i) == <<ToString(i)>>

\* the file of the given lines, each ended by eol, the last one only if `last`
Unlines(ls, eol, last) ==
    Join(ls, eol) \o (IF last /\ ls # << >> THEN eol ELSE << >>)

\* every HalideRuntime.h of up to n lines: any line may hold the marker, line endings
\* are "\n" or "\r\n", the final line ending is optional
HalideFiles(n) ==
    {Unlines([i \in 1..k |-> IF i \in ms THEN MarkerLine ELSE PlainLine(i)], eol, last) :
        k \in 0..n, ms \in SUBSET (1..n), eol \in {<<NL>>, <<CR, NL>>}, last \in BOOLEAN}

\* every MNNDefine.h of up to n atoms over the atoms of the macro block and one other
DefineAtoms == Range(TRACING_SEARCH) \cup {"x"}
DefineFiles(n) == UNION {[1..k -> DefineAtoms] : k \in 0..n}

\* the headers as a checkout of MNN has them
StockHalide ==
    Unlines(<<PlainLine(1), PlainLine(2), MarkerLine, PlainLine(4), PlainLine(5),
              PlainLine(6), PlainLine(7)>>, <<NL>>, TRUE)
StockDefine == <<"x", NL>> \o TRACING_SEARCH \o <<NL, "x", NL>>

InitOutDir(v) ==
    [vendor |-> v, build_manual |-> "none", install |-> "none",
     mnn_c_rs |-> FALSE, mnn_cpp_rs |-> FALSE, lib_mnn_c |-> FALSE]

\* a process of the build script about to enter main
InitProcess ==
    /\ envRead = [v \in EnvVars |-> Unread]
    /\ pc = "start"
    /\ result = "running"
    /\ ops = << >>
    /\ out = << >>
    /\ cmakeOpts = NoOpts
    /\ shimDefs = NoShim
    /\ clangArgs = [c |-> << >>, cpp |-> << >>]
    /\ option = [name |-> "", value |-> Off]
    /\ rendered = NotRendered

\* One invocation of main on any platform with any feature set; the vendor directory
\* is missing, empty, without the headers or stock, and OUT_DIR is fresh or holds a
\* staging tree of an earlier invocation.
Init ==
    /\ features \in SUBSET Features
    /\ targetOS \in TargetOSes
    /\ targetArch \in TargetArches
    /\ hostOS \in HostOSes
    /\ vendorSrc \in {NoDir, Dir(NoFile, NoFile, FALSE), Dir(NoFile, NoFile, TRUE),
                      Dir(StockHalide, StockDefine, TRUE)}
    /\ outDir \in {InitOutDir(NoDir), InitOutDir(Dir(<<"old", NL>>, <<"old", NL>>, TRUE))}
    /\ startDir = outDir.vendor
    /\ InitProcess

Next ==
    \/ EnsureVendor
    \/ StageVendor
    \/ PatchHalide
    \/ PatchDefine
    \/ BuildCmakeManual
    \/ ManualConfigure
    \/ ManualBuild
    \/ ManualInstall
    \/ BuildCmakeGeneric
    \/ UsePrebuilt
    \/ MnnCBuild
    \/ MnnCBindgen
    \/ MnnCppBindgen
    \/ EmitLink

Spec == Init /\ [][Next]_vars

\* The staging phase of main (lines 93-144) on every vendor tree within the bounds:
\* one of the two headers is drawn freely, the other is stock or absent.
InitStage ==
    /\ features = {}
    /\ targetOS = "linux"
    /\ targetArch = "x86_64"
    /\ hostOS = "linux"
    /\ \/ \E h \in HalideFiles(MaxLines) :
            vendorSrc \in {Dir(h, StockDefine, TRUE), Dir(h, NoFile, TRUE)}
       \/ \E d \in DefineFiles(MaxDefineLen) :
            vendorSrc \in {Dir(StockHalide, d, TRUE), Dir(NoFile, d, TRUE)}
    /\ outDir = InitOutDir(NoDir)
    /\ startDir = NoDir
    /\ InitProcess

NextStage ==
    \/ EnsureVendor
    \/ StageVendor
    \/ PatchHalide
    \/ PatchDefine

SpecStage == InitStage /\ [][NextStage]_vars

\* Cargo runs the build script again on the same OUT_DIR: a new process enters main,
\* with its own environment, and finds what the earlier invocations left on disk.
Reinvoke ==
    /\ pc = "exit"
    /\ pc' = "start"
    /\ result' = "running"
    /\ startDir' = outDir.vendor
    /\ envRead' = [v \in EnvVars |-> Unread]
    /\ ops' = << >>
    /\ out' = << >>
    /\ cmakeOpts' = NoOpts
    /\ shimDefs' = NoShim
    /\ clangArgs' = [c |-> << >>, cpp |-> << >>]
    /\ UNCHANGED <<features, targetOS, targetArch, hostOS, vendorSrc, outDir,
                   option, rendered>>

\* Invocations of main one after another on one OUT_DIR that starts fresh, for a native
\* linux target; the vendor tree is stock, or lacks MNNDefine.h so that the second
\* patch fails.
InitRebuild ==
    /\ features \in {{}, {"vulkan"}}
    /\ targetOS = "linux"
    /\ targetArch = "x86_64"
    /\ hostOS = "linux"
    /\ vendorSrc \in {Dir(StockHalide, StockDefine, TRUE), Dir(StockHalide, NoFile, TRUE)}
    /\ outDir = InitOutDir(NoDir)
    /\ startDir = NoDir
    /\ InitProcess

NextRebuild ==
    \/ EnsureVendor
    \/ StageVendor
    \/ PatchHalide
    \/ PatchDefine
    \/ BuildCmakeGeneric
    \/ UsePrebuilt
    \/ MnnCBuild
    \/ MnnCBindgen
    \/ MnnCppBindgen
    \/ EmitLink
    \/ Reinvoke

SpecRebuild == InitRebuild /\ [][NextRebuild]_vars

\* A CxxOption made from a feature or by CxxOption::new, changed by on, off and
\* with_value, and serialized.
InitOption ==
    /\ features \in SUBSET Features
    /\ targetOS = "linux"
    /\ targetArch = "x86_64"
    /\ hostOS = "linux"
    /\ vendorSrc = NoDir
    /\ outDir = InitOutDir(NoDir)
    /\ startDir = NoDir
    /\ envRead = [v \in EnvVars |-> Unread]
    /\ pc = "option"
    /\ result = "running"
    /\ ops = << >>
    /\ out = << >>
    /\ cmakeOpts = NoOpts
    /\ shimDefs = NoShim
    /\ clangArgs = [c |-> << >>, cpp |-> << >>]
    /\ option \in FeatureOptions(features)
                    \cup {CxxOption_new(n, s) : n \in OptionNames, s \in OptionStrings}
    /\ rendered = NotRendered

NextOption ==
    \/ OptionOn
    \/ OptionOff
    \/ OptionWithValue
    \/ OptionRender

SpecOption == InitOption /\ [][NextOption]_vars

----------------------------------------------------------------------------
(* Properties *)

HalideChmod == Step("staging", "chmod HalideRuntime.h")
HalideWrite == Step("staging", "write HalideRuntime.h")
DefineWrite == Step("staging", "write MNNDefine.h")

\* C1: when the vendor source directory is missing or has no entries, main ends with
\* VendorMissing at once: OUT_DIR/vendor is as it was, nothing was copied or patched,
\* no subprocess ran, and the native build, the shim compile and the binding
\* generators were never configured.
C1_VendorMissingStopsMain ==
    (~vendorSrc.exists \/ (~vendorSrc.extra /\ vendorSrc.halide = NoFile
                                           /\ vendorSrc.define = NoFile))
    => /\ pc \in {"start", "exit"}
       /\ pc = "exit" => result = "VendorMissing"
       /\ outDir = InitOutDir(startDir)
       /\ ops = << >>
       /\ cmakeOpts.path = "none"
       /\ ~shimDefs.compiled
       /\ clangArgs = [c |-> << >>, cpp |-> << >>]

\* C1 witness: main has ended on a vendor directory that exists and is empty
C1_Witness ==
    /\ pc = "exit"
    /\ result = "VendorMissing"
    /\ vendorSrc.exists
    /\ ~startDir.exists

\* C2: when OUT_DIR/vendor exists as main is entered, it is never written: the tree
\* stays what it was and no copy, chmod or write of a staged file happens, whatever
\* the vendor source holds now.
C2_StagingSkipIsFrameExact ==
    startDir.exists => outDir.vendor = startDir /\ StagingWrites = << >>

\* C2 witness: a complete run over an existing tree that differs from the vendor source
C2_Witness ==
    /\ startDir.exists
    /\ result = "ok"
    /\ vendorSrc.exists
    /\ vendorSrc.halide # startDir.halide
    /\ vendorSrc.define # startDir.define

\* C3: when the staged HalideRuntime.h does not hold the marker, the patch step leaves
\* the file as it was copied and does not write it.
C3_NoMarkerNoRewrite ==
    (/\ HalideChmod \in Range(ops)
     /\ ~Contains(vendorSrc.halide, HALIDE_SEARCH))
    => /\ outDir.vendor.halide = vendorSrc.halide
       /\ HalideWrite \notin Range(ops)

\* C3 witness: the patch step has passed a file of several lines without the marker
C3_Witness ==
    /\ pc = "native"
    /\ ~Contains(vendorSrc.halide, HALIDE_SEARCH)
    /\ Len(Lines(vendorSrc.halide)) >= 3
    /\ CR \in Range(vendorSrc.halide)
    /\ outDir.vendor.halide = vendorSrc.halide

\* the content with every exact occurrence of TRACING_SEARCH cut out and TRACING_REPLACE
\* put in its place, every other atom kept where it was
Spliced(b) ==
    LET occ == Occurrences(b, TRACING_SEARCH)
        inside(i) == \E j \in occ : j < i /\ i < j + Len(TRACING_SEARCH)
    IN Concat([i \in 1..Len(b) |->
                 IF i \in occ THEN TRACING_REPLACE
                 ELSE IF inside(i) THEN << >>
                 ELSE <<b[i]>>])

\* C4: after the macro patch the staged MNNDefine.h is the copied content if that does
\* not hold the exact block, and otherwise the copied content with the block replaced
\* by TRACING_REPLACE and everything outside the block unchanged.
C4_ExactMatchSubstitution ==
    DefineWrite \in Range(ops)
    => LET b == vendorSrc.define
           a == outDir.vendor.define
       IN /\ Occurrences(b, TRACING_SEARCH) = {} => a = b
          /\ Occurrences(b, TRACING_SEARCH) # {} => a = Spliced(b) /\ a # b

\* C4 witness: the block was replaced inside a file that holds other text around it
C4_Witness ==
    /\ pc = "native"
    /\ Occurrences(vendorSrc.define, TRACING_SEARCH) # {}
    /\ Len(vendorSrc.define) > Len(TRACING_SEARCH)
    /\ Contains(outDir.vendor.define, TRACING_REPLACE)

Canon(x) == IF x \in {"ON", "1"} THEN "on" ELSE IF x \in {"OFF", "0"} THEN "off" ELSE x

\* C5: the three serializations of an option agree with its value: On is -D<name>=ON,
\* -D<name>=1 and ON; Off is -D<name>=OFF, -D<name>=0 and OFF; Value(v) is -D<name>=v,
\* -D<name>=v and v; and the three never disagree on on and off.
C5_SerializationsAgree ==
    rendered.done
    => LET o == rendered.of
           pre == <<"-D", o.name, "=">>
       IN /\ o.value = On => /\ rendered.cmake = pre \o <<"ON">>
                             /\ rendered.cxx = pre \o <<"1">>
                             /\ rendered.cmake_value = "ON"
          /\ o.value = Off => /\ rendered.cmake = pre \o <<"OFF">>
                              /\ rendered.cxx = pre \o <<"0">>
                              /\ rendered.cmake_value = "OFF"
          /\ o.value.tag = "Value" => /\ rendered.cmake = pre \o <<o.value.v>>
                                      /\ rendered.cxx = pre \o <<o.value.v>>
                                      /\ rendered.cmake_value = o.value.v
          /\ o.value.tag \in {"On", "Off", "Value"}
          /\ Canon(rendered.cmake[4]) = Canon(rendered.cmake_value)
          /\ Canon(rendered.cxx[4]) = Canon(rendered.cmake_value)

\* C5 witness: an option switched on after it held a value, serialized in both states
C5_Witness ==
    /\ rendered.done
    /\ rendered.of.value.tag = "Value"
    /\ option.value = On

\* the accelerator features and their defines
Accelerators == {"vulkan", "metal", "coreml", "opencl", "opengl"}
DefineOf(f) ==
    CASE f = "vulkan" -> "MNN_VULKAN"
      [] f = "metal" -> "MNN_METAL"
      [] f = "coreml" -> "MNN_COREML"
      [] f = "opencl" -> "MNN_OPENCL"
      [] f = "opengl" -> "MNN_OPENGL"
      [] f = "openmp" -> "MNN_OPENMP"
      [] f = "crt_static" -> "MNN_WIN_RUNTIME_MT"
      [] f = "mnn-threadpool" -> "MNN_USE_THREAD_POOL"

\* the values a list of -D<name>=<value> arguments gives a name
ArgValues(args, name) ==
    {a[4] : a \in {b \in Range(args) : Len(b) = 4 /\ b[1] = "-D" /\ b[2] = name /\ b[3] = "="}}

\* the values a list of <<name, value>> defines gives a name
DefValues(defs, name) == {d[2] : d \in {e \in Range(defs) : e[1] = name}}

\* the values the native build was given for a name, on whichever path ran
NativeValues(name) ==
    IF cmakeOpts.path = "manual" THEN ArgValues(cmakeOpts.args, name)
    ELSE DefValues(cmakeOpts.args, name)

\* a set of values that says enabled: at least one value, each of them ON or 1
SaysOn(vals) == vals # {} /\ vals \subseteq {"ON", "1"}
\* a set of values that does not say enabled: no value, or each of them OFF or 0
SaysOff(vals) == vals \subseteq {"OFF", "0"}

\* the define of accelerator f is on in a consumer and those of the others are off
OnlyOn(f, valuesOf(_)) ==
    /\ SaysOn(valuesOf(DefineOf(f)))
    /\ \A g \in Accelerators \ {f} : SaysOff(valuesOf(DefineOf(g)))

\* C6: with one accelerator feature enabled alone, its define is on, and the defines of
\* the other accelerators are off, in the native build options, in the shim compile
\* defines and in the clang arguments of both binding generators.
C6_SingleAcceleratorEverywhere ==
    \A f \in Accelerators :
       features = {f}
       => /\ cmakeOpts.path # "none" => OnlyOn(f, NativeValues)
          /\ shimDefs.compiled => OnlyOn(f, LAMBDA n : DefValues(shimDefs.defines, n))
          /\ clangArgs.c # << >> => OnlyOn(f, LAMBDA n : ArgValues(clangArgs.c, n))
          /\ clangArgs.cpp # << >> => OnlyOn(f, LAMBDA n : ArgValues(clangArgs.cpp, n))

CcTarget == envRead["CC_x86_64_pc_windows_msvc"]
\* the compiler variables have been read far enough to know the configured compiler
CcKnown == CcTarget # Unread /\ (CcTarget # UnsetVal \/ envRead["CC"] # Unread)
ConfiguredCc ==
    IF CcTarget \notin {Unread, UnsetVal} THEN CcTarget
    ELSE IF envRead["CC"] \notin {Unread, UnsetVal} THEN envRead["CC"] ELSE << >>
CompileToggle == envRead["MNN_COMPILE"]

\* C7: on a windows/x86_64 target built on another host, a configured C compiler
\* without "clang-cl" in it ends main with the configuration error and no subprocess
\* has been spawned; no subprocess is ever spawned before the compiler was found to be
\* clang-cl, with MNN_COMPILE true (build_cmake) and false (mnn_c_build) alike.
C7_NoClangClFailsBeforeSpawn ==
    (targetOS = "windows" /\ targetArch = "x86_64" /\ hostOS # "windows")
    => /\ (CcKnown /\ "clang-cl" \notin Range(ConfiguredCc))
             => /\ result = "ConfigurationError"
                /\ pc = "exit"
                /\ Spawns = << >>
                /\ cmakeOpts.path = "none"
                /\ ~shimDefs.compiled
       /\ Spawns # << >> => CcKnown /\ "clang-cl" \in Range(ConfiguredCc)
       /\ result = "ok" => CcKnown /\ "clang-cl" \in Range(ConfiguredCc)

\* C7 witness: MNN_COMPILE is false, MNN_LIB_DIR is set, and mnn_c_build refused gcc
C7_Witness ==
    /\ IS_MSVC_TARGET
    /\ result = "ConfigurationError"
    /\ CompileToggle = <<"0">>
    /\ envRead["MNN_LIB_DIR"] # UnsetVal
    /\ envRead["CC"] = <<"gcc">>
    /\ Spawns = << >>

SearchKey == "cargo:rustc-link-search=native="
FrameworkKey == "cargo:rustc-link-lib=framework="
SearchPaths == SelectSeq(out, LAMBDA d : d[1] = SearchKey)

ManualSpawns == {"cmake configure", "cmake build", "cmake install"}
WasmAndWindowsFlags ==
    {<<"--target=wasm32-emscripten">>, <<"-fvisibility=default">>,
     <<"-I", EMSCRIPTEN_CACHE, "/sysroot/include">>, <<"--target=x86_64-pc-windows-msvc">>}

\* C9: when the target OS is neither windows nor emscripten, main never enters the
\* manual path of build_cmake (no build-mnn-manual directory, no manual cmake
\* subprocess) and neither binding generator is given a wasm flag or the Windows triple.
C9_NativeHostAvoidsCrossPaths ==
    targetOS \notin {"windows", "emscripten"}
    => /\ pc \notin {"configure", "build", "install"}
       /\ cmakeOpts.path # "manual"
       /\ outDir.build_manual = "none"
       /\ \A i \in 1..Len(ops) : ~(ops[i].kind = "spawn" /\ ops[i].what \in ManualSpawns)
       /\ \A i \in 1..Len(ops) : ops[i].what \notin
              {"remove build-mnn-manual", "create build-mnn-manual"}
       /\ Range(clangArgs.c) \cap WasmAndWindowsFlags = {}
       /\ Range(clangArgs.cpp) \cap WasmAndWindowsFlags = {}

\* C9 witness: a successful native build for macOS on x86_64
C9_Witness ==
    /\ targetOS = "macos"
    /\ targetArch = "x86_64"
    /\ hostOS # "windows"
    /\ result = "ok"
    /\ cmakeOpts.path = "generic"
    /\ clangArgs.cpp # << >>

\* C10: whichever path of build_cmake ran, each of the eight feature options was passed
\* exactly one value, ON if its feature is enabled and OFF if not, so both paths pass
\* the same matrix for the same features; and one invocation runs one path only.
C10_SameOptionMatrixOnBothPaths ==
    /\ cmakeOpts.path # "none"
       => \A f \in Features :
             NativeValues(DefineOf(f)) = {IF f \in features THEN "ON" ELSE "OFF"}
    /\ ~(/\ \E i \in 1..Len(ops) : ops[i].what \in ManualSpawns
         /\ \E i \in 1..Len(ops) : ops[i].what = "cmake (cmake crate)")

\* C10 witness: the manual path has configured with a mixed feature set
C10_Witness ==
    /\ cmakeOpts.path = "manual"
    /\ features = {"metal", "opengl", "crt_static"}
    /\ pc = "build"

----------------------------------------------------------------------------
(* C11 *)

MnnLink == Directive("cargo:rustc-link-lib=static=", <<"MNN">>)
IncludeDirective == Directive("cargo:include=", VendorInclude)

\* the positions of directive d in what has been printed
PositionsOf(d) == {i \in 1..Len(out) : out[i] = d}

\* C11: the directive cargo:rustc-link-lib=static=MNN is printed only by a run of main
\* that succeeds, once, and as the last directive of that run: the rerun directives,
\* the search path of the native library, everything the shim compile and the binding
\* generators print, the include directive, the frameworks and the emscripten search
\* path all come before it, and nothing is printed after it.
C11_StaticMnnIsLast ==
    /\ \A i \in PositionsOf(MnnLink) : i = Len(out) /\ result = "ok" /\ pc = "exit"
    /\ result = "ok" =>
          /\ PositionsOf(MnnLink) = {Len(out)}
          /\ \A d \in Range(ShimDirectives) \cup Range(ShimReruns)
                       \cup Range(Frameworks(features)) \cup Range(EmscriptenSearch)
                       \cup {IncludeDirective} :
                PositionsOf(d) # {} /\ \A i \in PositionsOf(d) : i < Len(out)
          /\ \E i \in 1..(Len(out) - 1) : out[i][1] = "cargo:rustc-link-search=native="

\* C11 witness: a successful wasm run, whose emscripten search path is printed late
C11_Witness ==
    /\ result = "ok"
    /\ is_emscripten
    /\ "metal" \in features
    /\ out[Len(out) - 1] = EmscriptenSearch[1]

----------------------------------------------------------------------------
(* C12 *)

FrameworkFeatures == {"metal", "coreml", "opencl", "opengl"}

\* the cfg attribute in front of each framework line
FrameworkOwner(name) ==
    CASE name \in {"Foundation", "CoreGraphics", "Metal"} -> "metal"
      [] name \in {"CoreML", "CoreVideo"} -> "coreml"
      [] name = "OpenCL" -> "opencl"
      [] name = "OpenGL" -> "opengl"
      [] OTHER -> "<none>"

FrameworkNames == {"Foundation", "CoreGraphics", "Metal", "CoreML", "CoreVideo",
                   "OpenCL", "OpenGL"}

\* the framework directives printed so far, in order, and their names
FrameworksPrinted == SelectSeq(out, LAMBDA d : d[1] = FrameworkKey)
FrameworkNamesPrinted == {FrameworksPrinted[i][2] : i \in 1..Len(FrameworksPrinted)}

\* C12 as stated: a framework is printed only for an enabled feature, a macOS run that
\* succeeds with one of the four features enabled prints exactly one framework
\* directive, the one of that feature, and no framework is printed off macOS.
C12_OneFrameworkPerFeature ==
    /\ targetOS # "macos" => FrameworksPrinted = << >>
    /\ \A n \in FrameworkNamesPrinted : FrameworkOwner(n) \in features
    /\ \A f \in FrameworkFeatures :
          (targetOS = "macos" /\ result = "ok"
              /\ features \cap FrameworkFeatures = {f})
          => /\ Len(FrameworksPrinted) = 1
             /\ FrameworkOwner(FrameworksPrinted[1][2]) = f

\* C12 amended: a framework is printed only for an enabled feature; a macOS run that
\* succeeds prints, once each, exactly the frameworks of its enabled features (three
\* for metal, two for coreml, one for opencl, one for opengl), so that enabling one
\* feature prints the frameworks of that feature and none of another; and no framework
\* is printed off macOS for any feature set.
C12_FrameworksGatedPerFeature ==
    /\ targetOS # "macos" => FrameworksPrinted = << >>
    /\ FrameworkNamesPrinted \subseteq FrameworkNames
    /\ \A n \in FrameworkNamesPrinted : FrameworkOwner(n) \in features
    /\ Len(FrameworksPrinted) = Cardinality(FrameworkNamesPrinted)
    /\ (targetOS = "macos" /\ result = "ok")
       => FrameworkNamesPrinted = {n \in FrameworkNames : FrameworkOwner(n) \in features}

\* C12 witness: a macOS run with metal alone has printed the frameworks of metal
C12_Witness ==
    /\ targetOS = "macos"
    /\ features \cap FrameworkFeatures = {"metal"}
    /\ result = "ok"
    /\ FrameworkNamesPrinted = {"Foundation", "CoreGraphics", "Metal"}

----------------------------------------------------------------------------
(* C13 *)

\* the steps build_cmake takes on either of its paths
NativeBuildSteps ==
    {"remove build-mnn-manual", "create build-mnn-manual", "cmake configure",
     "cmake build", "cmake install", "cmake (cmake crate)"}
BuildCmakeInvoked == \E i \in 1..Len(ops) : ops[i].what \in NativeBuildSteps

\* the values of MNN_COMPILE that turn the native build off
CompileOffValues == {<<"0">>, <<"false">>, <<"no">>}

LibDir == envRead["MNN_LIB_DIR"]
PrintedSearch(path) == \E i \in 1..Len(out) : out[i] = Directive(SearchKey, path)
AfterNativeStep == pc \in {"configure", "build", "install", "shim", "c_bindgen",
                           "cpp_bindgen", "link"}

\* C13: once main has read MNN_COMPILE (line 146), build_cmake has been invoked if and
\* only if the value is not one of 0, false, no (unset and unrecognised values turn the
\* native build on), and then MNN_LIB_DIR is not consulted. With the native build off,
\* MNN_LIB_DIR has been read: when it is set, it is the library search path printed,
\* the install directory is not, and no native build step ran; when it is unset, main
\* has ended in the panic of line 156 with no shim compile and no binding generator
\* run. No step after line 146 is reached without MNN_COMPILE having been read.
C13_CompileToggleDecidesNativeBuild ==
    /\ AfterNativeStep \/ BuildCmakeInvoked => CompileToggle # Unread
    /\ CompileToggle # Unread =>
          (BuildCmakeInvoked <=> CompileToggle \notin CompileOffValues)
    /\ BuildCmakeInvoked => LibDir = Unread /\ ~PrintedSearch(<<"/prebuilt/lib">>)
    /\ CompileToggle \in CompileOffValues =>
          /\ LibDir # Unread
          /\ ~PrintedSearch(InstallLib)
          /\ outDir.install = "none" /\ outDir.build_manual = "none"
          /\ cmakeOpts = NoOpts
          /\ IF LibDir # UnsetVal
             THEN /\ PrintedSearch(LibDir)
                  /\ result # "Panic: MNN_LIB_DIR not set while MNN_COMPILE is false"
             ELSE /\ pc = "exit"
                  /\ result = "Panic: MNN_LIB_DIR not set while MNN_COMPILE is false"
                  /\ Spawns = << >>
                  /\ ~shimDefs.compiled
                  /\ clangArgs = [c |-> << >>, cpp |-> << >>]
                  /\ ~outDir.lib_mnn_c /\ ~outDir.mnn_c_rs /\ ~outDir.mnn_cpp_rs
                  /\ \A i \in 1..Len(out) : out[i][1] # SearchKey

\* C13 witness: with MNN_COMPILE=no and MNN_LIB_DIR set, main has gone on to compile
\* the shim against the precompiled library
C13_Witness ==
    /\ CompileToggle = <<"no">>
    /\ LibDir = <<"/prebuilt/lib">>
    /\ PrintedSearch(LibDir)
    /\ shimDefs.compiled
    /\ ~BuildCmakeInvoked

----------------------------------------------------------------------------
(* C14 *)

\* the three commands of the manual path in the order of the code, each with the
\* exit status that lets the next one start
ManualStates == <<"cmake configure", "cmake build", "cmake install">>
ManualOkRun ==
    [i \in 1..6 |-> IF i % 2 = 1 THEN Step("spawn", ManualStates[(i + 1) \div 2])
                                ELSE Step("exit_ok", ManualStates[i \div 2])]
ManualLabel(what) ==
    CASE what = "cmake configure" -> "Manual CMake configuration failed"
      [] what = "cmake build" -> "Manual CMake build failed"
      [] what = "cmake install" -> "Manual CMake install failed"

\* what the manual path has run so far
ManualTrace == SelectSeq(ops, LAMBDA o : o.what \in ManualSpawns)
ManualFailedAt(k) ==
    ManualTrace = SubSeq(ManualOkRun, 1, 2 * k - 1)
                     \o << Step("exit_nonzero", ManualStates[k]) >>

\* C14: the commands of the manual path are started in the order configure, build,
\* install, each at most once and each only after the one before it exited with
\* success; a command that exits non-zero ends main with the error naming that command
\* and no later command is started; and build_cmake has returned Ok on the manual path
\* (main printed the install search path, or went on to a later step) only after
\* all three exited with success.
C14_ConfigureCompileInstallInOrder ==
    /\ \/ \E k \in 0..3 : ManualTrace = SubSeq(ManualOkRun, 1, 2 * k)
       \/ \E k \in 1..3 : ManualFailedAt(k)
    /\ \A k \in 1..3 :
          /\ ManualFailedAt(k) => pc = "exit" /\ result = ManualLabel(ManualStates[k])
          /\ result = ManualLabel(ManualStates[k]) => ManualFailedAt(k)
    /\ cmakeOpts.path = "manual"
          /\ (PrintedSearch(InstallLib)
                \/ pc \in {"shim", "c_bindgen", "cpp_bindgen", "link"})
          => ManualTrace = ManualOkRun
    /\ ManualTrace # << >> => ManualPath /\ cmakeOpts.path = "manual"

\* C14 witness: configure succeeded and the build command exited non-zero
C14_Witness ==
    /\ ManualFailedAt(2)
    /\ result = "Manual CMake build failed"
    /\ outDir.install = "none"

----------------------------------------------------------------------------
(* C15 *)

\* the lines of the vendor header and the 0-based position of the first marker line
VendorHalideLines == Lines(vendorSrc.halide)
MarkerAt == FindMarker(VendorHalideLines)

\* the 1-based positions the patch is to keep: all but the line before the marker
\* line and the three lines after it
KeptPositions ==
    {i \in 1..Len(VendorHalideLines) :
        (i - 1) \notin {MarkerAt - 1, MarkerAt + 1, MarkerAt + 2, MarkerAt + 3}}
ExpectedLines ==
    [j \in 1..Cardinality(KeptPositions) |->
        VendorHalideLines[CHOOSE i \in KeptPositions :
                             Cardinality({k \in KeptPositions : k <= i}) = j]]

\* the patch step has run on the staged copy of the header
HalidePatchRan == \E i \in 1..Len(ops) : ops[i] = HalideChmod

\* C15: once the patch step has run on a header that has a marker line, at whatever
\* position, the staged header has been rewritten and holds the lines of the vendor
\* header without the line before the first marker line and without the three lines
\* after it, every other line (the marker line among them) unchanged and in order.
C15_MarkerBlockRemoved ==
    (vendorSrc.halide # NoFile /\ MarkerAt >= 0 /\ HalidePatchRan)
    => /\ \E i \in 1..Len(ops) : ops[i] = HalideWrite
       /\ outDir.vendor.halide = Join(ExpectedLines, <<NL>>)

----------------------------------------------------------------------------
(* C16 *)

\* the position of each step in main
StepOrder ==
    <<"start", "stage", "patch_halide", "patch_define", "native", "configure", "build",
      "install", "shim", "c_bindgen", "cpp_bindgen", "link", "exit">>
Rank(p) == CHOOSE i \in 1..Len(StepOrder) : StepOrder[i] = p

\* how far an artifact has got
InstallLevel(x) == CASE x = "none" -> 0 [] x = "partial" -> 1 [] x = "complete" -> 2
BuildDirLevel(x) ==
    CASE x = "none" -> 0 [] x = "empty" -> 1 [] x = "configured" -> 2 [] x = "built" -> 3

\* nothing on disk is taken away by a step
ArtifactsKept ==
    /\ outDir.vendor.exists => outDir'.vendor.exists
    /\ outDir.vendor.halide # NoFile => outDir'.vendor.halide # NoFile
    /\ outDir.vendor.define # NoFile => outDir'.vendor.define # NoFile
    /\ outDir.vendor.extra => outDir'.vendor.extra
    /\ BuildDirLevel(outDir'.build_manual) >= BuildDirLevel(outDir.build_manual)
    /\ InstallLevel(outDir'.install) >= InstallLevel(outDir.install)
    /\ outDir.lib_mnn_c => outDir'.lib_mnn_c
    /\ outDir.mnn_c_rs => outDir'.mnn_c_rs
    /\ outDir.mnn_cpp_rs => outDir'.mnn_cpp_rs

\* the operations that belong to one step each
StepOps ==
    {Step("staging", "copy"), HalideChmod, HalideWrite, DefineWrite,
     Step("fs", "create build-mnn-manual"), Step("spawn", "cmake configure"),
     Step("spawn", "cmake build"), Step("spawn", "cmake install"),
     Step("spawn", "cmake (cmake crate)"), Step("spawn", "compiler mnn_c")}

\* each step has run only after the steps before it succeeded
StepsInOrder ==
    /\ \A o \in StepOps : Cardinality({i \in 1..Len(ops) : ops[i] = o}) <= 1
    /\ Cardinality(PositionsOf(IncludeDirective)) <= 1
    /\ (result = "running") = (pc # "exit")
    /\ CompileToggle # Unread =>
          /\ outDir.vendor.exists
          /\ StagingWrites # << >> => \E i \in 1..Len(ops) : ops[i] = DefineWrite
    /\ shimDefs.compiled =>
          /\ \E i \in 1..Len(out) : out[i][1] = SearchKey
          /\ BuildCmakeInvoked => outDir.install = "complete"
    /\ clangArgs.c # << >> => outDir.lib_mnn_c
    /\ clangArgs.cpp # << >> => outDir.mnn_c_rs
    /\ PositionsOf(IncludeDirective) # {} => outDir.mnn_cpp_rs
    /\ result = "ok" => PositionsOf(IncludeDirective) # {}

----------------------------------------------------------------------------
(* C17 *)

\* the vendor tree with both patches run on it
PatchedVendor ==
    Dir(IF MarkerAt = -1 THEN vendorSrc.halide ELSE Join(ExpectedLines, <<NL>>),
        PatchDefineContent(vendorSrc.define),
        vendorSrc.extra)

\* the native build, the shim compile or a binding generator has started in the
\* invocation that is running or has just ended
ConsumerStarted ==
    \/ BuildCmakeInvoked
    \/ shimDefs.compiled
    \/ clangArgs # [c |-> << >>, cpp |-> << >>]

\* C17: in every invocation of main on a shared OUT_DIR, whatever happened in the
\* invocations before it, once the native build, the shim compile or a binding
\* generator has started, the staging tree is the whole vendor tree with the marker
\* block removed from HalideRuntime.h and the macro block replaced in MNNDefine.h.
C17_ConsumersSeePatchedTree ==
    ConsumerStarted => outDir.vendor = PatchedVendor

====
